---- MODULE Spec2Model ----
(***************************************************************************)
(* Model of the elder-care assistant: class ElderlyVirtualNurse in its two *)
(* source variants, src/Eldercare.py and src/app.py.                       *)
(*                                                                         *)
(* Text is a sequence of one-character strings, so that str.lower, the     *)
(* strptime pattern and the f-string formatting are computed character by  *)
(* character.  A Python value is a record [type, s]: type "str" with the   *)
(* characters s, or type "NoneType" (what dict.get returns for an absent   *)
(* field) with s empty.                                                    *)
(***************************************************************************)
EXTENDS Integers, Sequences, FiniteSets, TLC

VARIABLES
    variant,               \* which source file runs: "Eldercare" or "app"
    file,                  \* the backing JSON file: [exists, content]
    user_data,             \* self.user_data: section name -> list of records
    notes,                 \* self.notes (Eldercare.py only)
    conversation_history,  \* self.conversation_history
    appended,              \* every turn _add_to_history ever appended, in order
    op,                    \* the call that just returned: [name, arg, outcome]
    ret,                   \* what it returned or raised: [kind, s, items]
    llm_called,            \* whether it invoked model.generate_content
    payload,               \* the list of blocks it passed to generate_content
    varied,                \* number of chat calls that left the plain course
    requests,              \* the add requests in flight, one per handler thread
    closer                 \* the thread whose close wrote the file last, or 0

vars == <<variant, file, user_data, notes, conversation_history, appended,
          op, ret, llm_called, payload, varied, requests, closer>>

-----------------------------------------------------------------------------
(* Bounds of the model *)

\* chat calls stop once this many turns were appended in total
MaxAppended == 25

\* chat calls other than (plain message, non-empty reply) per behaviour
MaxVaried == 1

\* records added per behaviour, over all four collections
MaxRecords == 2

-----------------------------------------------------------------------------
(* Text *)

UpperLetters == <<"A","B","C","D","E","F","G","H","I","J","K","L","M",
                  "N","O","P","Q","R","S","T","U","V","W","X","Y","Z">>

LowerLetters == <<"a","b","c","d","e","f","g","h","i","j","k","l","m",
                  "n","o","p","q","r","s","t","u","v","w","x","y","z">>

Digits == <<"0","1","2","3","4","5","6","7","8","9">>

\* one character of str.lower()
LowerChar(c) ==
    IF \E k \in DOMAIN UpperLetters : UpperLetters[k] = c
    THEN LowerLetters[CHOOSE k \in DOMAIN UpperLetters : UpperLetters[k] = c]
    ELSE c

\* str.lower()
Lower(s) == [i \in 1..Len(s) |-> LowerChar(s[i])]

Str(s) == [type |-> "str", s |-> s]

None == [type |-> "NoneType", s |-> <<>>]

\* truthiness of a value: None and "" are falsy
Truthy(v) == v.type = "str" /\ v.s # <<>>

\* str(v), as an f-string field renders it
Format(v) == IF v.type = "NoneType" THEN <<"N","o","n","e">> ELSE v.s

\* a fixed piece of text of the source, kept whole
Lit(t) == <<t>>

-----------------------------------------------------------------------------
(* Return values: a text, a list of records, or an exception that escapes *)

RetStr(s) == [kind |-> "str", s |-> s, items |-> <<>>]

RetList(l) == [kind |-> "list", s |-> <<>>, items |-> l]

Raise(exc) == [kind |-> "raise", s |-> Lit(exc), items |-> <<>>]

NoRet == [kind |-> "none", s |-> <<>>, items |-> <<>>]

-----------------------------------------------------------------------------
(* Session history *)

HistoryCap == 20

Turn(role, content) == [role |-> role, content |-> content]

LastN(s, n) == SubSeq(s, Len(s) - n + 1, Len(s))

AddToHistoryKeepOldest(h, role, content) ==
    LET a == Append(h, Turn(role, content))
    IN  IF Len(a) > HistoryCap THEN SubSeq(a, 1, HistoryCap) ELSE a

\* _add_to_history: append, then keep the last 20
AddToHistory(h, role, content) ==
    LET a == Append(h, Turn(role, content))
    IN  IF Len(a) > HistoryCap THEN LastN(a, HistoryCap) ELSE a

-----------------------------------------------------------------------------
(* The JSON file: json.dump writes a token stream, json.load parses one *)

Sections == <<"medications", "appointments", "vital_signs",
              "general_health_notes">>

\* the order in which the dict literals of the source insert their keys
KeyOrder == <<"medications", "appointments", "vital_signs",
              "general_health_notes", "id", "name", "dosage", "schedule",
              "doctor", "date", "time", "location", "type", "value", "title",
              "content", "timestamp", "notes", "date_added">>

Tok(t, s) == [t |-> t, s |-> s]

DumpScalarNoneAsText(v) == Tok("str", Format(v))

\* a string or null
DumpScalar(v) ==
    IF v.type = "NoneType" THEN Tok("null", <<>>) ELSE Tok("str", v.s)

RECURSIVE DumpFields(_, _)
\* the "key": value pairs of one record, from key number k on
DumpFields(r, k) ==
    IF k > Len(KeyOrder) THEN <<>>
    ELSE IF KeyOrder[k] \in DOMAIN r
         THEN <<Tok("key", Lit(KeyOrder[k])), DumpScalar(r[KeyOrder[k]])>>
              \o DumpFields(r, k + 1)
         ELSE DumpFields(r, k + 1)

DumpRecord(r) == <<Tok("{", <<>>)>> \o DumpFields(r, 1) \o <<Tok("}", <<>>)>>

RECURSIVE DumpRecords(_)
DumpRecords(l) ==
    IF l = <<>> THEN <<>> ELSE DumpRecord(Head(l)) \o DumpRecords(Tail(l))

DumpList(l) == <<Tok("[", <<>>)>> \o DumpRecords(l) \o <<Tok("]", <<>>)>>

RECURSIVE DumpSections(_, _)
DumpSections(d, k) ==
    IF k > Len(KeyOrder) THEN <<>>
    ELSE IF KeyOrder[k] \in DOMAIN d
         THEN <<Tok("key", Lit(KeyOrder[k]))>> \o DumpList(d[KeyOrder[k]])
              \o DumpSections(d, k + 1)
         ELSE DumpSections(d, k + 1)

\* json.dump(self.user_data, file, indent=4)
JsonDump(d) == <<Tok("{", <<>>)>> \o DumpSections(d, 1) \o <<Tok("}", <<>>)>>

ParseFail == [ok |-> FALSE, val |-> <<>>, next |-> 0]

ParseOk(val, next) == [ok |-> TRUE, val |-> val, next |-> next]

LoadScalar(tok) == IF tok.t = "null" THEN None ELSE Str(tok.s)

RECURSIVE ParseFields(_, _, _)
\* the pairs of one record up to its closing brace; a repeated key keeps
\* the last value
ParseFields(toks, i, acc) ==
    IF i > Len(toks) THEN ParseFail
    ELSE IF toks[i].t = "}" THEN ParseOk(acc, i + 1)
    ELSE IF /\ toks[i].t = "key"
            /\ i + 1 <= Len(toks)
            /\ toks[i + 1].t \in {"str", "null"}
         THEN ParseFields(toks, i + 2,
                          (toks[i].s[1] :> LoadScalar(toks[i + 1])) @@ acc)
         ELSE ParseFail

RECURSIVE ParseRecords(_, _, _)
\* the records of one list up to its closing bracket
ParseRecords(toks, i, acc) ==
    IF i > Len(toks) THEN ParseFail
    ELSE IF toks[i].t = "]" THEN ParseOk(acc, i + 1)
    ELSE IF toks[i].t = "{"
         THEN LET r == ParseFields(toks, i + 1, <<>>)
              IN  IF r.ok THEN ParseRecords(toks, r.next, Append(acc, r.val))
                  ELSE ParseFail
         ELSE ParseFail

RECURSIVE ParseSections(_, _, _)
\* the sections of the document up to its closing brace
ParseSections(toks, i, acc) ==
    IF i > Len(toks) THEN ParseFail
    ELSE IF toks[i].t = "}" THEN ParseOk(acc, i + 1)
    ELSE IF /\ toks[i].t = "key"
            /\ i + 1 <= Len(toks)
            /\ toks[i + 1].t = "["
         THEN LET r == ParseRecords(toks, i + 2, <<>>)
              IN  IF r.ok
                  THEN ParseSections(toks, r.next, (toks[i].s[1] :> r.val) @@ acc)
                  ELSE ParseFail
         ELSE ParseFail

\* json.load(file); ok = FALSE stands for json.JSONDecodeError
JsonLoad(toks) ==
    IF toks # <<>> /\ toks[1].t = "{"
    THEN LET r == ParseSections(toks, 2, <<>>)
         IN  IF r.ok /\ r.next = Len(toks) + 1 THEN r ELSE ParseFail
    ELSE ParseFail

NoFile == [exists |-> FALSE, content |-> <<>>]

FileOf(content) == [exists |-> TRUE, content |-> content]

EmptyUserData == [k \in {Sections[i] : i \in DOMAIN Sections} |-> <<>>]

\* _load_user_data: a missing or undecodable file gives the empty store
LoadUserData(f) ==
    IF ~f.exists THEN EmptyUserData
    ELSE LET r == JsonLoad(f.content)
         IN  IF r.ok THEN r.val ELSE EmptyUserData

\* _save_user_data: open(..., 'w') truncates, json.dump writes everything
SaveUserData(d) == FileOf(JsonDump(d))

\* __init__: load, then give every default section that is missing a list
Construct(f) ==
    LET d == LoadUserData(f)
    IN  [k \in DOMAIN d \cup {Sections[i] : i \in DOMAIN Sections} |->
            IF k \in DOMAIN d THEN d[k] ELSE <<>>]

-----------------------------------------------------------------------------
(* datetime.datetime.strptime(date, "%Y-%m-%d") *)

IsDigit(c) == \E k \in DOMAIN Digits : Digits[k] = c

DigitVal(c) == (CHOOSE k \in DOMAIN Digits : Digits[k] = c) - 1

\* int() of one or two characters, a leading blank skipped
Num2(s) ==
    IF Len(s) = 1 THEN DigitVal(s[1])
    ELSE IF s[1] = " " THEN DigitVal(s[2])
    ELSE 10 * DigitVal(s[1]) + DigitVal(s[2])

Num4(s) == 1000 * DigitVal(s[1]) + 100 * DigitVal(s[2])
           + 10 * DigitVal(s[3]) + DigitVal(s[4])

\* %Y is \d\d\d\d
YearMatch(s) == Len(s) = 4 /\ \A i \in 1..4 : IsDigit(s[i])

\* %m is 1[0-2]|0[1-9]|[1-9]
MonthMatch(s) ==
    \/ Len(s) = 2 /\ s[1] = "1" /\ s[2] \in {"0", "1", "2"}
    \/ Len(s) = 2 /\ s[1] = "0" /\ IsDigit(s[2]) /\ s[2] # "0"
    \/ Len(s) = 1 /\ IsDigit(s[1]) /\ s[1] # "0"

\* %d is 3[0-1]|[1-2]\d|0[1-9]|[1-9]| [1-9]
DayMatch(s) ==
    \/ Len(s) = 2 /\ s[1] = "3" /\ s[2] \in {"0", "1"}
    \/ Len(s) = 2 /\ s[1] \in {"1", "2"} /\ IsDigit(s[2])
    \/ Len(s) = 2 /\ s[1] \in {"0", " "} /\ IsDigit(s[2]) /\ s[2] # "0"
    \/ Len(s) = 1 /\ IsDigit(s[1]) /\ s[1] # "0"

IsLeap(y) == y % 4 = 0 /\ (y % 100 # 0 \/ y % 400 = 0)

DaysInMonth(y, m) ==
    IF m = 2 THEN (IF IsLeap(y) THEN 29 ELSE 28)
    ELSE IF m \in {4, 6, 9, 11} THEN 30 ELSE 31

\* the whole text matches year-month-day and names a day of the calendar
DateParses(s) ==
    \E lm \in 1..2, ld \in 1..2 :
        /\ Len(s) = 4 + 1 + lm + 1 + ld
        /\ YearMatch(SubSeq(s, 1, 4))
        /\ s[5] = "-"
        /\ MonthMatch(SubSeq(s, 6, 5 + lm))
        /\ s[6 + lm] = "-"
        /\ DayMatch(SubSeq(s, 7 + lm, 6 + lm + ld))
        /\ Num4(SubSeq(s, 1, 4)) >= 1
        /\ Num2(SubSeq(s, 7 + lm, 6 + lm + ld))
             <= DaysInMonth(Num4(SubSeq(s, 1, 4)), Num2(SubSeq(s, 6, 5 + lm)))

\* "ok", or the exception strptime raises: TypeError when the argument is
\* no str, ValueError when the text does not parse
StrpTime(date) ==
    IF date.type # "str" THEN "TypeError"
    ELSE IF DateParses(date.s) THEN "ok"
    ELSE "ValueError"

-----------------------------------------------------------------------------
(* Record store: each operation gives [user_data, file, ret] *)

Result(d, f, r) == [user_data |-> d, file |-> f, ret |-> r]

MedicationRecord(id, name, dosage, schedule, mnotes, today) ==
    [id |-> id, name |-> name, dosage |-> dosage, schedule |-> schedule,
     notes |-> mnotes, date_added |-> today]

MedicationRequired ==
    RetStr(Lit("Error: Name, dosage, and schedule are required"))

\* add_medication of Eldercare.py
AddMedicationEldercare(d, f, name, dosage, schedule, mnotes, id, today) ==
    IF ~Truthy(name) \/ ~Truthy(dosage) \/ ~Truthy(schedule)
    THEN Result(d, f, MedicationRequired)
    ELSE LET d2 == [d EXCEPT !["medications"] =
                        Append(@, MedicationRecord(id, name, dosage, schedule,
                                                   mnotes, today))]
         IN  Result(d2, SaveUserData(d2),
                    RetStr(Lit("Successfully added medication: ") \o Format(name)))

\* add_medication of app.py
AddMedicationApp(d, f, name, dosage, schedule, mnotes, id, today) ==
    LET d2 == [d EXCEPT !["medications"] =
                    Append(@, MedicationRecord(id, name, dosage, schedule,
                                               mnotes, today))]
    IN  Result(d2, SaveUserData(d2),
               RetStr(Lit("Added medication: ") \o Format(name) \o Lit(", ")
                      \o Format(dosage) \o Lit(", ") \o Format(schedule)))

AppointmentRecord(id, doctor, date, time, location, anotes) ==
    [id |-> id, doctor |-> doctor, date |-> date, time |-> time,
     location |-> location, notes |-> anotes]

DateFormatError == RetStr(Lit("Please use YYYY-MM-DD format for the date."))

\* add_appointment (the same text in both files): only ValueError is caught
AddAppointment(d, f, doctor, date, time, location, anotes, id) ==
    LET parsed == StrpTime(date)
        d2 == [d EXCEPT !["appointments"] =
                    Append(@, AppointmentRecord(id, doctor, date, time,
                                                location, anotes))]
    IN  IF parsed = "ValueError"
        THEN Result(d, f, DateFormatError)
        ELSE IF parsed # "ok" THEN Result(d, f, Raise(parsed))
        ELSE Result(d2, SaveUserData(d2),
                    RetStr(Lit("Appointment scheduled with ") \o Format(doctor)
                           \o Lit(" on ") \o Format(date) \o Lit(" at ")
                           \o Format(time) \o Lit(", ") \o Format(location)))

\* data.get(key, default) on the JSON body of a request
Get(data, key, default) == IF key \in DOMAIN data THEN data[key] ELSE default

\* the /add_appointment route: absent fields reach the method as None
RouteAddAppointment(d, f, data, id) ==
    AddAppointment(d, f, Get(data, "doctor", None), Get(data, "date", None),
                   Get(data, "time", None), Get(data, "location", None),
                   Get(data, "notes", Str(<<>>)), id)

VitalRecord(id, vital_type, value, now, vnotes) ==
    [id |-> id, type |-> vital_type, value |-> value, timestamp |-> now,
     notes |-> vnotes]

\* add_vital_sign of Eldercare.py
AddVitalSignEldercare(d, f, vital_type, value, vnotes, id, now) ==
    IF ~Truthy(vital_type) \/ ~Truthy(value)
    THEN Result(d, f, RetStr(Lit("Error: Type and value are required")))
    ELSE LET d2 == [d EXCEPT !["vital_signs"] =
                        Append(@, VitalRecord(id, vital_type, value, now, vnotes))]
         IN  Result(d2, SaveUserData(d2),
                    RetStr(Lit("Successfully recorded ") \o Format(vital_type)
                           \o Lit(": ") \o Format(value)))

\* add_vital_sign of app.py
AddVitalSignApp(d, f, vital_type, value, vnotes, id, now) ==
    LET d2 == [d EXCEPT !["vital_signs"] =
                    Append(@, VitalRecord(id, vital_type, value, now, vnotes))]
    IN  Result(d2, SaveUserData(d2),
               RetStr(Lit("Recorded ") \o Format(vital_type) \o Lit(": ")
                      \o Format(value)))

NoteRecord(id, title, content, now) ==
    [id |-> id, title |-> title, content |-> content, timestamp |-> now]

\* add_note (Eldercare.py): the new list of self.notes; nothing is saved
AddNote(n, title, content, id, now) == Append(n, NoteRecord(id, title, content, now))

NoteAdded == RetStr(Lit("Note added successfully"))

NoMedications == RetStr(Lit("No medications currently tracked."))

NoAppointments == RetStr(Lit("No appointments currently scheduled."))

NoVitalSigns == RetStr(Lit("No vital signs recorded yet."))

NoNotes == RetStr(Lit("No health notes recorded yet."))

\* get_medications of Eldercare.py
GetMedicationsEldercare(d) == RetList(d["medications"])

\* get_medications of app.py
GetMedicationsApp(d) ==
    IF d["medications"] = <<>> THEN NoMedications ELSE RetList(d["medications"])

GetMedications(v, d) ==
    IF v = "Eldercare" THEN GetMedicationsEldercare(d) ELSE GetMedicationsApp(d)

GetAppointmentsAlwaysList(d) == RetList(d["appointments"])

\* get_appointments (the same text in both files)
GetAppointments(d) ==
    IF d["appointments"] = <<>> THEN NoAppointments ELSE RetList(d["appointments"])

\* get_vital_signs of Eldercare.py
GetVitalSignsEldercare(d) == RetList(d["vital_signs"])

\* get_vital_signs of app.py
GetVitalSignsApp(d) ==
    IF d["vital_signs"] = <<>> THEN NoVitalSigns ELSE RetList(d["vital_signs"])

GetVitalSigns(v, d) ==
    IF v = "Eldercare" THEN GetVitalSignsEldercare(d) ELSE GetVitalSignsApp(d)

\* get_notes (Eldercare.py)
GetNotes(n) == IF n = <<>> THEN NoNotes ELSE RetList(n)

-----------------------------------------------------------------------------
(* Conversation service *)

Farewells == {<<"e","x","i","t">>, <<"q","u","i","t">>, <<"b","y","e">>}

Farewell == RetStr(Lit("Goodbye! Take care of your health."))

Apology ==
    RetStr(Lit("I apologize, but I couldn't generate a response. Please try again."))

Trouble(err) ==
    RetStr(Lit("I'm having trouble with the AI model: ") \o err
           \o Lit(". Please try again later."))

SystemPrompt == Lit("You are a virtual nursing assistant for elderly care. ...")

Quote(s) == <<"\"">> \o s \o <<"\"">>

\* one token as json.dumps writes it
RenderTok(tok) ==
    CASE tok.t = "str" -> Quote(tok.s)
      [] tok.t = "null" -> <<"null">>
      [] tok.t = "key" -> Quote(tok.s) \o <<":">>
      [] OTHER -> <<tok.t>>

RECURSIVE RenderToks(_)
RenderToks(toks) ==
    IF toks = <<>> THEN <<>> ELSE RenderTok(Head(toks)) \o RenderToks(Tail(toks))

\* json.dumps of what a get_* call returned: a text or a list of records
DumpsValue(r) ==
    IF r.kind = "str" THEN Quote(r.s) ELSE RenderToks(DumpList(r.items))

\* json.dumps(context, indent=2) of the three get_* results
DumpsContext(v, d) ==
    <<"{">> \o Quote(Lit("medications")) \o <<":">> \o DumpsValue(GetMedications(v, d))
    \o Quote(Lit("appointments")) \o <<":">> \o DumpsValue(GetAppointments(d))
    \o Quote(Lit("vitals")) \o <<":">> \o DumpsValue(GetVitalSigns(v, d))
    \o <<"}">>

\* self.system_prompt + "\n\n" + context_str
SystemContent(v, d) ==
    SystemPrompt \o Lit("\n\n") \o Lit("USER CONTEXT:\n") \o DumpsContext(v, d)
    \o Lit("\n\n")

IsFarewellCaseSensitive(user_input) == user_input \in Farewells

\* user_input.lower() in ["exit", "quit", "bye"]
IsFarewell(user_input) == Lower(user_input) \in Farewells

BuildPayloadLastTurnOnly(v, d, h) ==
    <<SystemContent(v, d), h[Len(h)].content>>

\* [msg["content"] for msg in messages], messages being the system message
\* followed by the whole conversation history
BuildPayload(v, d, h) ==
    LET messages == <<Turn("system", SystemContent(v, d))>> \o h
    IN  [i \in 1..Len(messages) |-> messages[i].content]

\* what generate_content does: a response with a text, a falsy response
\* or an exception whose str() is s
Reply(text) == [kind |-> "text", s |-> text]

NoResponse == [kind |-> "none", s |-> <<>>]

Raises(err) == [kind |-> "raise", s |-> err]

NoOutcome == [kind |-> "", s |-> <<>>]

GenerateAlwaysApologizes(h, outcome) ==
    IF outcome.kind = "text" /\ outcome.s # <<>>
    THEN [history |-> AddToHistory(h, "assistant", outcome.s),
          turns |-> <<Turn("assistant", outcome.s)>>,
          ret |-> RetStr(outcome.s)]
    ELSE [history |-> h, turns |-> <<>>, ret |-> Apology]

GenerateRecordsFallback(h, outcome) ==
    LET text == IF outcome.kind = "raise" THEN Trouble(outcome.s).s
                ELSE IF outcome.kind = "none" \/ outcome.s = <<>> THEN Apology.s
                ELSE outcome.s
    IN  [history |-> AddToHistory(h, "assistant", text),
         turns |-> <<Turn("assistant", text)>>,
         ret |-> RetStr(text)]

\* the try block of process_user_input, after the call came back; turns
\* lists what it handed to _add_to_history
Generate(h, outcome) ==
    IF outcome.kind = "raise"
    THEN [history |-> h, turns |-> <<>>, ret |-> Trouble(outcome.s)]
    ELSE IF outcome.kind = "none" \/ outcome.s = <<>>
    THEN [history |-> h, turns |-> <<>>, ret |-> Apology]
    ELSE [history |-> AddToHistory(h, "assistant", outcome.s),
          turns |-> <<Turn("assistant", outcome.s)>>,
          ret |-> RetStr(outcome.s)]

\* process_user_input: [history, turns, ret, called, payload]; turns lists
\* what the call handed to _add_to_history, in order
ProcessUserInput(v, d, h, user_input, outcome) ==
    IF IsFarewell(user_input)
    THEN [history |-> h, turns |-> <<>>, ret |-> Farewell, called |-> FALSE,
          payload |-> <<>>]
    ELSE LET h1 == AddToHistory(h, "user", user_input)
             g == Generate(h1, outcome)
         IN  [history |-> g.history,
              turns |-> <<Turn("user", user_input)>> \o g.turns,
              ret |-> g.ret, called |-> TRUE,
              payload |-> BuildPayload(v, d, h1)]

-----------------------------------------------------------------------------
(* Inputs *)

Txt(t) == Str(Lit(t))

Ids == {Txt("1b9d6bcd"), Txt("7c9e6679")}

Today == Txt("2024-05-01")

Now == Txt("2024-05-01 09:00")

\* name, dosage, schedule: all given, or one of them absent or empty
MedicationArgs ==
    {<<Txt("aspirin"), Txt("100mg"), Txt("daily")>>,
     <<None, Txt("100mg"), Txt("daily")>>,
     <<Str(<<>>), Txt("100mg"), Txt("daily")>>,
     <<Txt("aspirin"), None, Txt("daily")>>,
     <<Txt("aspirin"), Txt("100mg"), Str(<<>>)>>}

DateTexts ==
    {<<"2","0","2","4","-","0","5","-","0","1">>,
     <<"2","0","2","4","-","0","2","-","2","9">>,
     <<"2","0","2","4","-","1","3","-","4","0">>,
     <<"2","0","2","3","-","0","2","-","2","9">>,
     <<"0","5","/","0","1","/","2","0","2","4">>,
     <<>>}

\* JSON bodies of /add_appointment: with a date text, or without a date
AppointmentBodies ==
    {[doctor |-> Txt("Dr. Lee"), date |-> Str(t), time |-> Txt("10:00"),
      location |-> Txt("Clinic")] : t \in DateTexts}
    \cup {[doctor |-> Txt("Dr. Lee"), time |-> Txt("10:00"),
           location |-> Txt("Clinic")]}

VitalArgs ==
    {<<Txt("pulse"), Txt("72")>>, <<None, Txt("72")>>, <<Txt("pulse"), Str(<<>>)>>}

NoteArgs == {<<Txt("sleep"), Txt("slept well")>>}

PlainInput == <<"h","i">>

Inputs ==
    {PlainInput,
     <<"b","y","e">>, <<"B","Y","E">>, <<"E","x","i","t">>, <<"q","U","i","T">>,
     <<" ","b","y","e"," ">>, <<"q","u","i","t","\n">>}

PlainOutcome == Reply(<<"o","k">>)

Outcomes ==
    {PlainOutcome, Reply(<<>>), NoResponse,
     Raises(Lit("timeout")), Raises(Lit("quota exceeded"))}

\* what the file may hold when the process starts: nothing, a cut-off
\* write, a document with no section, a store saved by an earlier run
InitialFiles ==
    {NoFile,
     FileOf(<<Tok("{", <<>>), Tok("key", Lit("medications")), Tok("[", <<>>)>>),
     FileOf(<<Tok("{", <<>>), Tok("}", <<>>)>>),
     SaveUserData([EmptyUserData EXCEPT !["medications"] =
        <<MedicationRecord(Txt("0f8fad5b"), Txt("insulin"), Txt("10u"),
                           Txt("morning"), Str(<<>>), Txt("2024-04-30"))>>])}

-----------------------------------------------------------------------------
(* The calls *)

Call(name, arg, outcome) == [name |-> name, arg |-> arg, outcome |-> outcome]

TotalRecords ==
    Len(user_data["medications"]) + Len(user_data["appointments"])
    + Len(user_data["vital_signs"]) + Len(notes)

\* the handler threads of the server, two requests at a time
Threads == {1, 2}

\* a thread with no request: [pc, call, rec, ret, buf]
NoRequest ==
    [pc |-> "idle", call |-> Call("", <<>>, NoOutcome), id |-> None,
     rec |-> <<>>, ret |-> NoRet, buf |-> <<>>]

\* one request at a time: no handler thread is at work
NoThreads == UNCHANGED <<requests, closer>>

ChatIdle ==
    UNCHANGED <<conversation_history, appended, llm_called, payload, varied>>

Init ==
    /\ variant \in {"Eldercare", "app"}
    /\ file \in InitialFiles
    /\ user_data = Construct(file)
    /\ notes = <<>>
    /\ conversation_history = <<>>
    /\ appended = <<>>
    /\ op = Call("__init__", <<>>, NoOutcome)
    /\ ret = NoRet
    /\ llm_called = FALSE
    /\ payload = <<>>
    /\ varied = 0
    /\ requests = [t \in Threads |-> NoRequest]
    /\ closer = 0

\* a store operation returned r
Stored(name, arg, r) ==
    /\ user_data' = r.user_data
    /\ file' = r.file
    /\ ret' = r.ret
    /\ op' = Call(name, arg, NoOutcome)
    /\ UNCHANGED <<variant, notes>>
    /\ ChatIdle
    /\ NoThreads

AddMedicationCall(a, id) ==
    /\ TotalRecords < MaxRecords
    /\ Stored("add_medication", a,
              IF variant = "Eldercare"
              THEN AddMedicationEldercare(user_data, file, a[1], a[2], a[3],
                                          Str(<<>>), id, Today)
              ELSE AddMedicationApp(user_data, file, a[1], a[2], a[3],
                                    Str(<<>>), id, Today))

AddAppointmentCall(data, id) ==
    /\ TotalRecords < MaxRecords
    /\ Stored("add_appointment", data,
              RouteAddAppointment(user_data, file, data, id))

AddVitalSignCall(a, id) ==
    /\ TotalRecords < MaxRecords
    /\ Stored("add_vital_sign", a,
              IF variant = "Eldercare"
              THEN AddVitalSignEldercare(user_data, file, a[1], a[2],
                                         Str(<<>>), id, Now)
              ELSE AddVitalSignApp(user_data, file, a[1], a[2],
                                   Str(<<>>), id, Now))

AddNoteCall(a, id) ==
    /\ variant = "Eldercare"
    /\ TotalRecords < MaxRecords
    /\ notes' = AddNote(notes, a[1], a[2], id, Now)
    /\ ret' = NoteAdded
    /\ op' = Call("add_note", a, NoOutcome)
    /\ UNCHANGED <<variant, file, user_data>>
    /\ ChatIdle
    /\ NoThreads

\* a list operation returned r
Listed(name, r) ==
    /\ ret' = r
    /\ op' = Call(name, <<>>, NoOutcome)
    /\ UNCHANGED <<variant, file, user_data, notes>>
    /\ ChatIdle
    /\ NoThreads

GetMedicationsCall == Listed("get_medications", GetMedications(variant, user_data))

GetAppointmentsCall == Listed("get_appointments", GetAppointments(user_data))

GetVitalSignsCall == Listed("get_vital_signs", GetVitalSigns(variant, user_data))

GetNotesCall == variant = "Eldercare" /\ Listed("get_notes", GetNotes(notes))

\* the process stops and starts again: __init__ runs on the file as it is
Restart ==
    /\ op.name # "restart"
    /\ user_data' = Construct(file)
    /\ notes' = <<>>
    /\ conversation_history' = <<>>
    /\ appended' = <<>>
    /\ op' = Call("restart", <<>>, NoOutcome)
    /\ ret' = NoRet
    /\ llm_called' = FALSE
    /\ payload' = <<>>
    /\ UNCHANGED <<variant, file, varied>>
    /\ NoThreads

Plain(user_input, outcome) == user_input = PlainInput /\ outcome = PlainOutcome

\* a chat request: process_user_input runs to its return
ProcessUserInputCall(user_input, outcome) ==
    LET r == ProcessUserInput(variant, user_data, conversation_history,
                              user_input, outcome)
    IN  /\ conversation_history' = r.history
        /\ appended' = appended \o r.turns
        /\ ret' = r.ret
        /\ llm_called' = r.called
        /\ payload' = r.payload
        /\ op' = Call("process_user_input", user_input, outcome)
        /\ varied' = IF Plain(user_input, outcome) THEN varied ELSE varied + 1
        /\ UNCHANGED <<variant, file, user_data, notes>>
        /\ NoThreads

\* chat requests while the store is at rest
Chat ==
    /\ Len(appended) < MaxAppended
    /\ \E user_input \in Inputs, outcome \in Outcomes :
          /\ Plain(user_input, outcome) \/ varied < MaxVaried
          /\ ProcessUserInputCall(user_input, outcome)

\* one plain chat request between store operations
ChatOnce ==
    /\ appended = <<>>
    /\ ProcessUserInputCall(PlainInput, PlainOutcome)

Next ==
    \/ \E a \in MedicationArgs, id \in Ids : AddMedicationCall(a, id)
    \/ \E data \in AppointmentBodies, id \in Ids : AddAppointmentCall(data, id)
    \/ \E a \in VitalArgs, id \in Ids : AddVitalSignCall(a, id)
    \/ \E a \in NoteArgs, id \in Ids : AddNoteCall(a, id)
    \/ GetMedicationsCall
    \/ GetAppointmentsCall
    \/ GetVitalSignsCall
    \/ GetNotesCall
    \/ ChatOnce
    \/ Restart

\* the record store, with restarts
Spec == Init /\ [][Next]_vars

NextChat == Chat

\* the conversation service over a store at rest
SpecChat == Init /\ [][NextChat]_vars

-----------------------------------------------------------------------------
(* Two add requests at once: the server runs each request in a thread of  *)
(* its own against the one nurse object, and nothing is locked.  An add   *)
(* goes through four steps another thread can come between: the check and *)
(* the append in memory, open(..., 'w'), json.dump into the file object,  *)
(* and the close at the end of the with block.  The text json.dump writes *)
(* stays in the buffer of the file object (8192 bytes) until the close    *)
(* writes it, from position 0 of that file object.                        *)

\* the add method a request runs, as one call
Method(v, d, f, name, arg, id) ==
    CASE name = "add_medication" ->
            IF v = "Eldercare"
            THEN AddMedicationEldercare(d, f, arg[1], arg[2], arg[3],
                                        Str(<<>>), id, Today)
            ELSE AddMedicationApp(d, f, arg[1], arg[2], arg[3],
                                  Str(<<>>), id, Today)
      [] name = "add_appointment" -> RouteAddAppointment(d, f, arg, id)
      [] OTHER ->
            IF v = "Eldercare"
            THEN AddVitalSignEldercare(d, f, arg[1], arg[2], Str(<<>>), id, Now)
            ELSE AddVitalSignApp(d, f, arg[1], arg[2], Str(<<>>), id, Now)

\* the list an add method appends to
SectionOf(name) ==
    CASE name = "add_medication" -> "medications"
      [] name = "add_appointment" -> "appointments"
      [] OTHER -> "vital_signs"

\* the requests two clients send at once
ConcurrentCalls ==
    {Call("add_medication", <<Txt("aspirin"), Txt("100mg"), Txt("daily")>>,
          NoOutcome),
     Call("add_medication", <<Str(<<>>), Txt("100mg"), Txt("daily")>>,
          NoOutcome),
     Call("add_vital_sign", <<Txt("pulse"), Txt("72")>>, NoOutcome),
     Call("add_appointment",
          [doctor |-> Txt("Dr. Lee"),
           date |-> Str(<<"2","0","2","4","-","0","5","-","0","1">>),
           time |-> Txt("10:00"), location |-> Txt("Clinic")], NoOutcome),
     Call("add_appointment",
          [doctor |-> Txt("Dr. Lee"), time |-> Txt("10:00"),
           location |-> Txt("Clinic")], NoOutcome)}

WriteAtEnd(old, buf) == old \o buf

\* the close writes the buffer over the file from position 0; what the
\* file holds beyond the buffer's length stays
WriteAt0(old, buf) == buf \o SubSeq(old, Len(buf) + 1, Len(old))

At(t, pc) == requests[t].pc = pc

\* a request arrives and a thread takes it
Receive(t, call, id) ==
    /\ At(t, "idle")
    /\ requests' = [requests EXCEPT ![t] =
                       [NoRequest EXCEPT !.pc = "append", !.call = call,
                                         !.id = id]]
    /\ UNCHANGED <<variant, file, user_data, notes, conversation_history,
                   appended, op, ret, llm_called, payload, varied, closer>>

\* the method up to its append: a rejected or raising call returns here
AppendStep(t) ==
    LET q == requests[t]
        r == Method(variant, user_data, file, q.call.name, q.call.arg, q.id)
        k == SectionOf(q.call.name)
    IN  /\ At(t, "append")
        /\ user_data' = r.user_data
        /\ requests' = [requests EXCEPT ![t] =
              IF r.user_data = user_data
              THEN [q EXCEPT !.pc = "done", !.ret = r.ret]
              ELSE [q EXCEPT !.pc = "open", !.ret = r.ret,
                             !.rec = r.user_data[k][Len(r.user_data[k])]]]
        /\ UNCHANGED <<variant, file, notes, conversation_history, appended,
                       op, ret, llm_called, payload, varied, closer>>

\* open(self.user_data_file, 'w'): the file is there and empty
OpenStep(t) ==
    /\ At(t, "open")
    /\ file' = FileOf(<<>>)
    /\ requests' = [requests EXCEPT ![t].pc = "dump"]
    /\ UNCHANGED <<variant, user_data, notes, conversation_history, appended,
                   op, ret, llm_called, payload, varied, closer>>

\* json.dump(self.user_data, file): the store as it is now, into the buffer
DumpStep(t) ==
    /\ At(t, "dump")
    /\ requests' = [requests EXCEPT ![t].pc = "close",
                                    ![t].buf = JsonDump(user_data)]
    /\ UNCHANGED <<variant, file, user_data, notes, conversation_history,
                   appended, op, ret, llm_called, payload, varied, closer>>

\* the with block ends: the buffer goes to the file, the method returns
CloseStep(t) ==
    /\ At(t, "close")
    /\ file' = FileOf(WriteAt0(file.content, requests[t].buf))
    /\ closer' = t
    /\ requests' = [requests EXCEPT ![t].pc = "done"]
    /\ UNCHANGED <<variant, user_data, notes, conversation_history, appended,
                   op, ret, llm_called, payload, varied>>

NextConcurrent ==
    \/ \E t \in Threads, call \in ConcurrentCalls, id \in Ids :
          Receive(t, call, id)
    \/ \E t \in Threads : AppendStep(t)
    \/ \E t \in Threads : OpenStep(t)
    \/ \E t \in Threads : DumpStep(t)
    \/ \E t \in Threads : CloseStep(t)

\* two add requests handled at once
SpecConcurrent == Init /\ [][NextConcurrent]_vars

-----------------------------------------------------------------------------
(* Vocabulary of the properties *)

Min(a, b) == IF a < b THEN a ELSE b

Chatted(o) == o.name = "process_user_input"

\* the external call raised, gave no response, or gave an empty text
Failed(outcome) ==
    \/ outcome.kind \in {"raise", "none"}
    \/ outcome.kind = "text" /\ outcome.s = <<>>

FarewellWords == {<<"e","x","i","t">>, <<"q","u","i","t">>, <<"b","y","e">>}

UpperOf(c) ==
    IF \E k \in DOMAIN LowerLetters : LowerLetters[k] = c
    THEN UpperLetters[CHOOSE k \in DOMAIN LowerLetters : LowerLetters[k] = c]
    ELSE c

\* s spells the word w, each letter in either case
AnyCasing(s, w) ==
    /\ Len(s) = Len(w)
    /\ \A i \in 1..Len(w) : s[i] = w[i] \/ s[i] = UpperOf(w[i])

IsSpace(c) == c \in {" ", "\n", "\t", "\r"}

RECURSIVE Trim(_)
\* s without its leading and trailing whitespace
Trim(s) ==
    IF s = <<>> THEN s
    ELSE IF IsSpace(s[1]) THEN Trim(Tail(s))
    ELSE IF IsSpace(s[Len(s)]) THEN Trim(SubSeq(s, 1, Len(s) - 1))
    ELSE s

\* the history h after one more turn, under the cap of 20
Capped(h, turn) ==
    LET a == Append(h, turn) IN LastN(a, Min(Len(a), 20))

Contents(h) == [i \in 1..Len(h) |-> h[i].content]

-----------------------------------------------------------------------------
(* C1: the conversation history never holds more than 20 turns, and it is *)
(* exactly the last min(n, 20) of the n turns ever appended, in the order *)
(* they were appended.                                                    *)
C1_HistoryIsLastTwenty ==
    /\ Len(conversation_history) <= 20
    /\ conversation_history = LastN(appended, Min(Len(appended), 20))

\* 25 turns were appended and turns 6..25 remain
C1_Witness ==
    /\ Len(appended) = 25
    /\ conversation_history = SubSeq(appended, 6, 25)
    /\ conversation_history[1] # appended[1]

(* C2: process_user_input on "exit", "quit" or "bye" in any letter casing *)
(* returns the farewell, does not invoke the external call and leaves the *)
(* conversation history as it was.                                        *)
C2_FarewellAnyCasing ==
    [][(Chatted(op') /\ \E w \in FarewellWords : AnyCasing(op'.arg, w))
        => /\ ret' = RetStr(<<"Goodbye! Take care of your health.">>)
           /\ ~llm_called'
           /\ conversation_history' = conversation_history
           /\ appended' = appended]_vars

\* "BYE" was sent to a conversation that already has turns
C2_Witness ==
    /\ Chatted(op)
    /\ op.arg = <<"B","Y","E">>
    /\ ret = Farewell
    /\ ~llm_called
    /\ Len(conversation_history) >= 2

(* C3: when the external call raises or returns an empty result, the      *)
(* history after process_user_input is the history before it plus the one *)
(* user turn of this call, under the cap of 20: that user turn is last    *)
(* and no assistant turn follows it.                                      *)
C3_FailureKeepsUserTurnOnly ==
    [][(Chatted(op') /\ llm_called' /\ Failed(op'.outcome))
        => /\ conversation_history' =
                Capped(conversation_history, Turn("user", op'.arg))
           /\ conversation_history'[Len(conversation_history')] =
                Turn("user", op'.arg)
           /\ appended' = Append(appended, Turn("user", op'.arg))]_vars

\* the call failed on a full history: the oldest turn left, the user turn stays
C3_Witness ==
    /\ Chatted(op)
    /\ llm_called
    /\ op.outcome.kind = "raise"
    /\ Len(appended) > 20
    /\ Len(conversation_history) = 20
    /\ conversation_history[20] = Turn("user", op.arg)

\* the text is four digits, two digits, two digits with dashes between,
\* and names a day of the calendar
IsCalendarDate(s) ==
    /\ Len(s) = 10
    /\ \A i \in {1, 2, 3, 4, 6, 7, 9, 10} : IsDigit(s[i])
    /\ s[5] = "-" /\ s[8] = "-"
    /\ LET y == Num4(SubSeq(s, 1, 4))
           m == 10 * DigitVal(s[6]) + DigitVal(s[7])
           day == 10 * DigitVal(s[9]) + DigitVal(s[10])
       IN  /\ y >= 1
           /\ m \in 1..12
           /\ day >= 1
           /\ day <= (IF m = 2 THEN (IF IsLeap(y) THEN 29 ELSE 28)
                      ELSE IF m \in {4, 6, 9, 11} THEN 30 ELSE 31)

\* the request carries a date that is a str in the calendar format
HasCalendarDate(data) ==
    /\ "date" \in DOMAIN data
    /\ data["date"].type = "str"
    /\ IsCalendarDate(data["date"].s)

(* C4: add_appointment with a date that is not in the YYYY-MM-DD calendar *)
(* format (impossible, malformed, or absent and so None) returns the      *)
(* format-error text without raising and leaves the appointment list and  *)
(* the file unchanged; with a valid date the appointment becomes the last *)
(* element of the list, which get_appointments returns.                   *)
C4_BadDateRejected ==
    [][(op'.name = "add_appointment")
        => IF HasCalendarDate(op'.arg)
           THEN /\ ret'.kind = "str"
                /\ Len(user_data'["appointments"]) =
                     Len(user_data["appointments"]) + 1
                /\ user_data'["appointments"][Len(user_data'["appointments"])].date
                     = op'.arg["date"]
                /\ GetAppointments(user_data') =
                     RetList(user_data'["appointments"])
           ELSE /\ ret' = RetStr(<<"Please use YYYY-MM-DD format for the date.">>)
                /\ user_data' = user_data
                /\ file' = file]_vars

(* C5: add_medication with an empty or missing name, dosage or schedule   *)
(* returns an error text, appends no medication and does not rewrite the  *)
(* file, in either source variant.                                        *)
C5_EmptyMedicationRejected ==
    [][(op'.name = "add_medication"
        /\ \E i \in 1..3 : op'.arg[i] = None \/ op'.arg[i] = Str(<<>>))
        => /\ ret' = RetStr(<<"Error: Name, dosage, and schedule are required">>)
           /\ user_data' = user_data
           /\ file' = file]_vars

\* what a list operation gives for the collection l: the sentinel when l
\* is empty, else l
SentinelOrList(l, sentinel) == IF l = <<>> THEN sentinel ELSE RetList(l)

Listing(name) == op.name = name

(* C6 as claimed: every list operation returns its empty-state sentinel   *)
(* text exactly when its collection is empty and the list of all records  *)
(* otherwise, and never raises.                                           *)
C6_SentinelIffEmpty ==
    /\ Listing("get_medications")
         => ret = SentinelOrList(user_data["medications"], NoMedications)
    /\ Listing("get_appointments")
         => ret = SentinelOrList(user_data["appointments"], NoAppointments)
    /\ Listing("get_vital_signs")
         => ret = SentinelOrList(user_data["vital_signs"], NoVitalSigns)
    /\ Listing("get_notes") => ret = SentinelOrList(notes, NoNotes)

\* l2 is l, or l with one record put at its end
SameOrAppended(l, l2) ==
    \/ l2 = l
    \/ Len(l2) = Len(l) + 1 /\ SubSeq(l2, 1, Len(l)) = l

(* C6 as amended: get_appointments and get_notes, and get_medications and *)
(* get_vital_signs of app.py, return the sentinel text exactly when the   *)
(* collection is empty and the list otherwise; get_medications and        *)
(* get_vital_signs of Eldercare.py return the list also when it is empty. *)
(* No list operation raises, and a list is in insertion order: between    *)
(* restarts every add leaves the list as it was or puts one record at its *)
(* end.                                                                   *)
C6_SentinelOrListByVariant ==
    [][/\ (op'.name = "get_medications")
            => ret' = IF variant' = "Eldercare"
                      THEN RetList(user_data'["medications"])
                      ELSE SentinelOrList(user_data'["medications"],
                               RetStr(<<"No medications currently tracked.">>))
       /\ (op'.name = "get_appointments")
            => ret' = SentinelOrList(user_data'["appointments"],
                          RetStr(<<"No appointments currently scheduled.">>))
       /\ (op'.name = "get_vital_signs")
            => ret' = IF variant' = "Eldercare"
                      THEN RetList(user_data'["vital_signs"])
                      ELSE SentinelOrList(user_data'["vital_signs"],
                               RetStr(<<"No vital signs recorded yet.">>))
       /\ (op'.name = "get_notes")
            => ret' = SentinelOrList(notes',
                          RetStr(<<"No health notes recorded yet.">>))
       /\ (op'.name # "restart")
            => /\ \A k \in DOMAIN user_data :
                     SameOrAppended(user_data[k], user_data'[k])
               /\ SameOrAppended(notes, notes')]_vars

\* get_medications of Eldercare.py on an empty store, and get_appointments
\* on two appointments
C6_Witness ==
    /\ Listing("get_medications")
    /\ variant = "Eldercare"
    /\ user_data["medications"] = <<>>
    /\ ret = RetList(<<>>)
    /\ Len(user_data["appointments"]) = 2
    /\ user_data["appointments"][1] # user_data["appointments"][2]

\* a successful add_medication, add_appointment or add_vital_sign returned
AddSucceeded(o, r) ==
    /\ o.name \in {"add_medication", "add_appointment", "add_vital_sign"}
    /\ r.kind = "str"
    /\ r.s[1] \in {"Successfully added medication: ", "Added medication: ",
                   "Appointment scheduled with ", "Successfully recorded ",
                   "Recorded "}

(* C7: when a successful add_medication, add_appointment or               *)
(* add_vital_sign returns, the file parses to the whole user_data mapping *)
(* with its four keys; a restart right after it gives the same            *)
(* medication, appointment and vital-sign lists in the same order, and    *)
(* empty notes and an empty conversation history.                         *)
C7_FileHoldsStore ==
    [][/\ AddSucceeded(op', ret')
            => /\ file'.exists
               /\ JsonLoad(file'.content).ok
               /\ JsonLoad(file'.content).val = user_data'
               /\ \A i \in DOMAIN Sections : Sections[i] \in DOMAIN user_data'
       /\ (AddSucceeded(op, ret) /\ op'.name = "restart")
            => /\ \A k \in {"medications", "appointments", "vital_signs"} :
                     user_data'[k] = user_data[k]
               /\ notes' = <<>>
               /\ conversation_history' = <<>>]_vars

\* a successful add returned while a note and a conversation are in
\* memory: the file holds the store, and a restart would drop the other two
C7_Witness ==
    /\ AddSucceeded(op, ret)
    /\ notes # <<>>
    /\ conversation_history # <<>>
    /\ file.exists
    /\ JsonLoad(file.content).val = user_data
    /\ user_data["general_health_notes"] = <<>>

(* C8 as claimed: process_user_input returns one and the same fallback    *)
(* text when the external call raises and when it returns an empty        *)
(* result, whatever the exception.                                        *)
C8_OneFallbackText ==
    (Chatted(op) /\ llm_called /\ Failed(op.outcome))
        => ret = RetStr(<<"I apologize, but I couldn't generate a response. Please try again.">>)

(* C8 as amended: on an empty result process_user_input returns the fixed *)
(* apology; on an exception it returns a different text that embeds the   *)
(* description of the exception, so it differs from exception to          *)
(* exception.                                                             *)
C8_FallbackTextByFailure ==
    (Chatted(op) /\ llm_called /\ Failed(op.outcome))
        => IF op.outcome.kind = "raise"
           THEN ret = RetStr(<<"I'm having trouble with the AI model: ">>
                             \o op.outcome.s
                             \o <<". Please try again later.">>)
           ELSE ret = RetStr(<<"I apologize, but I couldn't generate a response. Please try again.">>)

\* the call raised "timeout" and the reply names it
C8_Witness ==
    /\ Chatted(op)
    /\ llm_called
    /\ op.outcome = Raises(<<"timeout">>)
    /\ ret.s[2] = "timeout"
    /\ ret # Apology

(* C9: an input that is "exit", "quit" or "bye" once leading and trailing *)
(* whitespace is removed returns the farewell, without the external call  *)
(* and without a new turn in the history.                                 *)
C9_FarewellAfterTrim ==
    [][(Chatted(op') /\ Trim(op'.arg) \in FarewellWords)
        => /\ ret' = RetStr(<<"Goodbye! Take care of your health.">>)
           /\ ~llm_called'
           /\ conversation_history' = conversation_history]_vars

(* C10: on every call of process_user_input that is no farewell the       *)
(* payload is the system block (prompt plus serialized records) followed  *)
(* by the contents of all turns the history holds once the user turn is   *)
(* in it, in order: 2 to 21 blocks, the last one the user message; on     *)
(* success the reply is returned verbatim and is the assistant turn right *)
(* after that user turn.                                                  *)
C10_PayloadIsSystemThenHistory ==
    [][(Chatted(op') /\ llm_called')
        => LET h1 == Capped(conversation_history, Turn("user", op'.arg))
               n == Len(conversation_history')
           IN  /\ payload' = <<SystemContent(variant, user_data)>> \o Contents(h1)
               /\ Len(payload') \in 2..21
               /\ payload'[Len(payload')] = op'.arg
               /\ ~Failed(op'.outcome)
                    => /\ ret' = RetStr(op'.outcome.s)
                       /\ n >= 2
                       /\ conversation_history'[n] =
                            Turn("assistant", op'.outcome.s)
                       /\ conversation_history'[n - 1] = Turn("user", op'.arg)
                       /\ conversation_history' =
                            Capped(h1, Turn("assistant", op'.outcome.s))]_vars

\* a successful call on a full history: 21 blocks went out
C10_Witness ==
    /\ Chatted(op)
    /\ llm_called
    /\ ~Failed(op.outcome)
    /\ Len(payload) = 21
    /\ Len(appended) > 20
    /\ conversation_history[20] = Turn("assistant", op.outcome.s)
    /\ payload[21] = op.arg

\* the add request of thread t returned its success text
Returned(t) ==
    /\ requests[t].pc = "done"
    /\ AddSucceeded(requests[t].call, requests[t].ret)

\* the record of thread t is at place i of its list in memory
InMemoryAt(t, i) ==
    LET l == user_data[SectionOf(requests[t].call.name)]
    IN  i \in 1..Len(l) /\ l[i] = requests[t].rec

\* the records of both threads are in memory, at two places
BothInMemory ==
    \E i, j \in 1..(Len(user_data["medications"])
                    + Len(user_data["appointments"])
                    + Len(user_data["vital_signs"])) :
        /\ InMemoryAt(1, i)
        /\ InMemoryAt(2, j)
        /\ (SectionOf(requests[1].call.name) = SectionOf(requests[2].call.name))
              => i # j

\* the file parses to the store in memory
FileHoldsMemory ==
    /\ file.exists
    /\ JsonLoad(file.content).ok
    /\ JsonLoad(file.content).val = user_data

(* C11: two adds running at once can lose an update in the file.  Once    *)
(* both have returned their success text, memory holds both new records,  *)
(* and the file holds the store exactly when the thread that closed last  *)
(* had dumped the store with both records in it; when it had dumped       *)
(* before the other thread's append, the file is not the serialization of *)
(* the store in memory.                                                   *)
C11_FileLostIffStaleDump ==
    (Returned(1) /\ Returned(2))
        => /\ BothInMemory
           /\ closer \in Threads
           /\ FileHoldsMemory <=> (requests[closer].buf = JsonDump(user_data))
           /\ (file.content = JsonDump(user_data)) <=> FileHoldsMemory

\* both adds returned success, both records are in memory, and the file
\* is not the store: it does not even parse
C11_Witness ==
    /\ Returned(1)
    /\ Returned(2)
    /\ BothInMemory
    /\ ~FileHoldsMemory
    /\ file.content # JsonDump(user_data)
    /\ ~JsonLoad(file.content).ok
    /\ LoadUserData(file) = EmptyUserData

====
